---- MODULE Spec2Model ----
(***************************************************************************)
(* gotcha-server: the signed challenge/response protocol layer.            *)
(*                                                                         *)
(* The model covers the key material wrapper (encodings.rs), the claim     *)
(* fragments and the two token codecs (tokens.rs, tokens/pow_challenge.rs, *)
(* tokens/auth.rs), the routers and their middleware layers (routes.rs),   *)
(* the site-key header (routes/custom_headers.rs, routes/extractors.rs)    *)
(* and the rendering of challenge errors (routes/errors.rs).               *)
(*                                                                         *)
(* Requests are handled one at a time: a handler shares no mutable state   *)
(* with another, so an interleaving of two handlers is a sequence of them. *)
(* The requests modelled carry a User-Agent that block_bot_agent lets      *)
(* through.                                                                *)
(*                                                                         *)
(* An operator that needs an intermediate value more than once takes it as *)
(* a parameter of a helper (f calls f_with(x, g(x))), so that each value   *)
(* is computed once. A record constructor lists its fields in the order    *)
(* in which TLC keeps them (that of their first use in the module).        *)
(***************************************************************************)
EXTENDS Integers, Sequences, FiniteSets, TLC

VARIABLES
    now,        \* the wall clock, in ticks of 1/SUBSEC second
    issued,     \* the PoW tokens handed out so far (held by clients, not by the server)
    challenges, \* the challenge table the admin operations write (storage)
    req,        \* the request being answered
    trace,      \* the layers and handler steps that ran for req, in order
    log,        \* the error the request's handling logged (tracing::error!)
    resp,       \* the response to req
    verified,   \* the (token, solution) pairs of the answered submissions whose
                \* proof of work was verified (the clients' history, not the server's)
    material,   \* the Base64<A> value that random made last
    parsed,     \* the last call of try_from and its result
    debug,      \* the last Debug rendering of a Base64<A> value
    minted,     \* the TimeClaims value or the token made last
    raised,     \* the domain error a handler returned, and the storage error
                \* it was converted from, if any
    rendered,   \* the response that error was rendered to
    decoded     \* the last call of a token decoder: the token and the result

\* the values the pure functions are applied to, and their results
pure == <<material, parsed, debug, minted, raised, rendered, decoded>>

vars == <<now, issued, challenges, req, trace, log, resp, verified, pure>>

(***************************************************************************)
(* Bounds of the model.                                                    *)
(***************************************************************************)
\* key sizes run from 0 to KEY_SIZE + MaxOver bytes
MaxOver == 2
\* the random number generators are seeded with 0..MaxSeed
MaxSeed == 3
\* the caller-supplied timeouts, in ticks: 0..MaxTimeout
MaxTimeout == 2
\* clock resolution: ticks per second
SUBSEC == 2
\* at most this many PoW tokens are kept in flight
MaxIssued == 1
\* puzzle salts are drawn from 0..MaxSalt
MaxSalt == 1
\* submitted solutions are drawn from 0..MaxSolution
MaxSolution == 1

(***************************************************************************)
(* encodings.rs: Base64<A>, the key material wrapper.                      *)
(* A string is a sequence of one-character strings.                        *)
(***************************************************************************)
KEY_SIZE == 48

Upper == <<"A","B","C","D","E","F","G","H","I","J","K","L","M",
           "N","O","P","Q","R","S","T","U","V","W","X","Y","Z">>
Lower == <<"a","b","c","d","e","f","g","h","i","j","k","l","m",
           "n","o","p","q","r","s","t","u","v","w","x","y","z">>
Digits == <<"0","1","2","3","4","5","6","7","8","9">>

\* the two alphabets (markers Standard and UrlSafe)
Standard == Upper \o Lower \o Digits \o <<"+", "/">>
UrlSafe == Upper \o Lower \o Digits \o <<"-", "_">>

\* the 6-bit value of character c in alphabet A, or -1
Sextet(A, c) ==
    IF \E i \in 1..Len(A) : A[i] = c
    THEN (CHOOSE i \in 1..Len(A) : A[i] = c) - 1
    ELSE 0 - 1

\* the number of trailing '=' of s (at most 2 are looked at)
PadLen(s) ==
    IF Len(s) >= 1 /\ s[Len(s)] = "="
    THEN IF Len(s) >= 2 /\ s[Len(s) - 1] = "=" THEN 2 ELSE 1
    ELSE 0

Decoded_ok(bytes) == [bytes |-> bytes, ok |-> TRUE]
Decoded_err == [bytes |-> <<>>, ok |-> FALSE]

\* the three bytes of the 24 bits n
Bytes3(n) == <<n \div 65536, (n \div 256) % 256, n % 256>>

RECURSIVE DecodeQuads(_, _)
\* the bytes of the complete quads of the sextets v, from index i on
DecodeQuads(v, i) ==
    IF i + 3 > Len(v) THEN <<>>
    ELSE Bytes3(v[i] * 262144 + v[i+1] * 4096 + v[i+2] * 64 + v[i+3])
            \o DecodeQuads(v, i + 4)

\* a last group of two sextets and "==": one byte, no bit left over
DecodeLast2(head, n, pad) ==
    IF pad = 2 /\ n % 16 = 0 THEN Decoded_ok(head \o <<n \div 16>>) ELSE Decoded_err

\* a last group of three sextets and "=": two bytes, no bit left over
DecodeLast3(head, n, pad) ==
    IF pad = 1 /\ n % 4 = 0
    THEN Decoded_ok(head \o <<n \div 1024, (n \div 4) % 256>>)
    ELSE Decoded_err

\* the sextets v of a string of length len with pad trailing '=', of which
\* the first `full` make complete quads
DecodeSextets(v, len, pad, full) ==
    IF \E i \in 1..Len(v) : v[i] = 0 - 1 THEN Decoded_err       \* InvalidByte
    ELSE IF len % 4 # 0 THEN Decoded_err                          \* InvalidLength, InvalidPadding
    ELSE IF Len(v) - full = 0 THEN
        IF pad = 0 THEN Decoded_ok(DecodeQuads(v, 1)) ELSE Decoded_err
    ELSE IF Len(v) - full = 2 THEN
        DecodeLast2(DecodeQuads(v, 1), v[full + 1] * 64 + v[full + 2], pad)
    ELSE IF Len(v) - full = 3 THEN
        DecodeLast3(DecodeQuads(v, 1),
                    v[full + 1] * 4096 + v[full + 2] * 64 + v[full + 3], pad)
    ELSE Decoded_err

DecodeUnpadded(A, s, pad) ==
    DecodeSextets([i \in 1..(Len(s) - pad) |-> Sextet(A, s[i])],
                  Len(s), pad, ((Len(s) - pad) \div 4) * 4)

\* the GeneralPurpose engine's decode under alphabet A: canonical padding is
\* required and no trailing bits are allowed
DecodeCanonical(A, s) == DecodeUnpadded(A, s, PadLen(s))

Rep(c, n) == [i \in 1..n |-> c]

RECURSIVE EncodeFrom(_, _, _)
\* the characters of the bytes b from index i on, three bytes to four
\* characters, the last group padded with '='
EncodeFrom(A, b, i) ==
    IF i > Len(b) THEN <<>>
    ELSE IF i = Len(b)
    THEN <<A[(b[i] \div 4) + 1], A[((b[i] % 4) * 16) + 1], "=", "=">>
    ELSE IF i + 1 = Len(b)
    THEN <<A[(b[i] \div 4) + 1], A[((b[i] % 4) * 16) + (b[i+1] \div 16) + 1],
           A[((b[i+1] % 16) * 4) + 1], "=">>
    ELSE <<A[(b[i] \div 4) + 1], A[((b[i] % 4) * 16) + (b[i+1] \div 16) + 1],
           A[((b[i+1] % 16) * 4) + (b[i+2] \div 64) + 1], A[(b[i+2] % 64) + 1]>>
            \o EncodeFrom(A, b, i + 3)

\* Engine::encode
Base64Encode(A, bytes) == EncodeFrom(A, bytes, 1)

\* rng.random::<[u8; N]>(): the N bytes a generator seeded with `seed` gives
\* (seed 0 gives zeros, seed 1 gives 0xFF)
random_bytes(seed, N) ==
    [i \in 1..N |-> IF seed <= 1 THEN seed * 255 ELSE ((seed * 89) + (i * ((seed * 16) + 5))) % 256]

\* Base64<A>::random_with::<N>(rng)
random_with(A, N, seed) == Base64Encode(A, random_bytes(seed, N))

(***************************************************************************)
(* Storage: the tenants (api keys) the requests are resolved against.      *)
(* A site key is a Base64<UrlSafe> and a secret a Base64<Standard>, both   *)
(* made by random::<KEY_SIZE>(): 64 characters encoding 48 bytes.          *)
(***************************************************************************)
Tenants == {"A", "B"}

api_key ==
    [t \in Tenants |->
        IF t = "A"
        THEN [site_key |-> Rep("-", 63) \o <<"A">>,
              secret   |-> Rep("A", 63) \o <<"B">>,
              hostname |-> "a.test"]
        ELSE [site_key |-> Rep("_", 63) \o <<"B">>,
              secret   |-> Rep("/", 63) \o <<"C">>,
              hostname |-> "b.test"]]

\* `my-wrong-secret` in base64: well formed, owned by no tenant
UnknownSiteKey ==
    <<"b","X","k","t","d","3","J","v","b","m","c","t","c","2","V","j","c","m","V","0">>
\* not base64 under the URL-safe alphabet
MalformedSiteKey == <<"+", "/", "!", "!">>
\* no X-Site-Key header at all
NoHeader == <<"<absent>">>

\* the strings the storage holds and the requests send, with their alphabet
KnownStrings ==
    {<<Standard, api_key[t].secret>> : t \in Tenants}
    \cup {<<UrlSafe, api_key[t].site_key>> : t \in Tenants}
    \cup {<<UrlSafe, UnknownSiteKey>>, <<UrlSafe, MalformedSiteKey>>}

\* DecodeCanonical on the known strings, computed once
Decoded == {<<p[1], p[2], DecodeCanonical(p[1], p[2])>> : p \in KnownStrings}

Base64Decode_in(A, s, hit) ==
    IF hit = {} THEN DecodeCanonical(A, s) ELSE (CHOOSE d \in hit : TRUE)[3]

\* Engine::decode
Base64Decode(A, s) ==
    Base64Decode_in(A, s, {d \in Decoded : d[1] = A /\ d[2] = s})

decode_slice_fits(d, size) == d.ok /\ Len(d.bytes) <= size

\* decode_slice that never looks at the size of the buffer
decode_slice_unbounded(A, s, size) == Base64Decode(A, s).ok

\* Engine::decode_slice(value, &mut [0; size]): the decode fails too when the
\* output does not fit the buffer (OutputSliceTooSmall)
decode_slice(A, s, size) == decode_slice_fits(Base64Decode(A, s), size)

\* try_from that takes the key size for the only length there is
try_from_exact_size(A, value) ==
    IF Base64Decode(A, value).ok /\ Len(Base64Decode(A, value).bytes) = KEY_SIZE
    THEN [ok |-> TRUE, value |-> value]
    ELSE [ok |-> FALSE, value |-> <<>>]

\* TryFrom<String> for Base64<A>: Ok(value) iff decode_slice succeeds
try_from(A, value) ==
    IF decode_slice(A, value, KEY_SIZE)
    THEN [ok |-> TRUE, value |-> value]
    ELSE [ok |-> FALSE, value |-> <<>>]

\* Debug for Base64<A>: debug_tuple(name).field(&self.0), the type's name
\* and the string in quotes
Debug_fmt(A, value) ==
    <<IF A = Standard THEN "Base64<Standard>" ELSE "Base64<UrlSafe>", "(", "\"">>
        \o value \o <<"\"", ")">>

(***************************************************************************)
(* tokens.rs: the claim fragments. A claims value serializes to one flat   *)
(* JSON object (serde flatten); a member that is absent holds Absent (a    *)
(* number), "" (a string) or {} (the audience).                            *)
(***************************************************************************)
Absent == 0 - 1

NoJson ==
    [exp |-> Absent, iat |-> Absent, salt |-> Absent, difficulty |-> Absent,
     score |-> Absent, aud |-> {}, sub |-> "", iss |-> ""]

\* time::serde::timestamp: an OffsetDateTime serializes as whole seconds
unix_timestamp(t) == t \div SUBSEC

\* Duration::from_secs
from_secs(s) == s * SUBSEC

\* TimeClaims::TIMEOUT_SECS
TIMEOUT_SECS == 30

\* with_timeout that forgets to add the timeout
with_timeout_no_timeout(t, timeout, other_claims) ==
    [exp |-> t, iat |-> t, other |-> other_claims]

\* TimeClaims::with_timeout, at clock t
with_timeout(t, timeout, other_claims) ==
    [exp |-> t + timeout, iat |-> t, other |-> other_claims]

\* TimeClaims::new
TimeClaims_new(t, other_claims) ==
    with_timeout(t, from_secs(TIMEOUT_SECS), other_claims)

\* Serialize with the two timestamps under each other's name
Serialize_TimeClaims_swapped(tc, other_json) ==
    [other_json EXCEPT !.exp = unix_timestamp(tc.iat), !.iat = unix_timestamp(tc.exp)]

\* Serialize for TimeClaims<T>: exp and iat as timestamps, T's members
\* (other_json, as T writes them) beside them
Serialize_TimeClaims(tc, other_json) ==
    [other_json EXCEPT !.exp = unix_timestamp(tc.exp), !.iat = unix_timestamp(tc.iat)]

\* Validation::new(alg): jsonwebtoken's defaults
Validation_new(alg) ==
    [aud |-> {}, algorithms |-> {alg},
     required_spec_claims |-> {"exp"}, validate_exp |-> TRUE, leeway |-> 60, validate_aud |-> TRUE]

\* build_validation that leaves the library's default leeway in place
build_validation_keeps_leeway(validation) ==
    [validation EXCEPT !.required_spec_claims = @ \cup {"exp"},
                       !.validate_exp = TRUE]

\* build_validation that switches the expiry check off
build_validation_no_expiry(validation) ==
    [validation EXCEPT !.required_spec_claims = @ \cup {"exp"},
                       !.validate_exp = FALSE,
                       !.leeway = 0]

\* TimeClaims::build_validation
TimeClaims_build_validation(validation) ==
    [validation EXCEPT !.required_spec_claims = @ \cup {"exp"},
                       !.validate_exp = TRUE,
                       !.leeway = 0]

\* the audience AuthClaims::build_validation asks for
CanonicalAudience == "https://gotcha.land/"

\* build_validation that leaves the audience unchecked
build_validation_no_audience(validation) ==
    [validation EXCEPT !.required_spec_claims = @ \cup {"aud", "iss", "sub"},
                       !.aud = @ \cup {CanonicalAudience},
                       !.validate_aud = FALSE]

\* AuthClaims::build_validation
AuthClaims_build_validation(validation) ==
    [validation EXCEPT !.required_spec_claims = @ \cup {"aud", "iss", "sub"},
                       !.aud = @ \cup {CanonicalAudience},
                       !.validate_aud = TRUE]

(***************************************************************************)
(* The proof-of-work puzzle (analysis::proof_of_work::PowChallenge): a     *)
(* puzzle descriptor and a target difficulty, with solve() and             *)
(* is_valid_solution().                                                    *)
(***************************************************************************)
Salts == 0..MaxSalt
Difficulties == {1}
Solutions == 0..MaxSolution

PowChallenges == [salt : Salts, difficulty : Difficulties]
NoChallenge == [salt |-> Absent, difficulty |-> Absent]

\* PowChallenge::is_valid_solution: the low `difficulty` bits of the digest are zero
is_valid_solution(c, solution) == (c.salt + solution) % (2 ^ c.difficulty) = 0

\* PowChallenge::solve: the least valid solution
solve(c) ==
    CHOOSE s \in 0..(2 ^ c.difficulty) :
        /\ is_valid_solution(c, s)
        /\ \A r \in 0..(s - 1) : ~is_valid_solution(c, r)

\* Serialize for PowChallenge
Serialize_PowChallenge(c) ==
    [NoJson EXCEPT !.salt = c.salt, !.difficulty = c.difficulty]

\* Deserialize for PowChallenge: both members are required, others are ignored
Deserialize_PowChallenge(json) ==
    IF json.salt = Absent \/ json.difficulty = Absent
    THEN [ok |-> FALSE, value |-> NoChallenge]
    ELSE [ok |-> TRUE, value |-> [salt |-> json.salt, difficulty |-> json.difficulty]]

(***************************************************************************)
(* jsonwebtoken, as the codecs call it. A compact token is its header's    *)
(* algorithm, its payload and its signature; the signature of an ideal MAC *)
(* is the triple it was computed from.                                     *)
(***************************************************************************)
NoSig == [alg |-> "", key |-> <<>>, payload |-> NoJson]

\* the empty string, or any text that is not three dot-separated parts
GarbageToken == [alg |-> "", payload |-> NoJson, parts |-> 1, sig |-> NoSig]

\* no token at all
NoToken == [alg |-> "", payload |-> NoJson, parts |-> 0, sig |-> NoSig]

\* EncodingKey::from_base64_secret / DecodingKey::from_base64_secret
from_base64_secret(secret) == Base64Decode(Standard, secret)

\* HMAC pads a key shorter than its 64-byte block with zeros
\* jsonwebtoken::Algorithm: the names a header's alg member may take
Algorithm ==
    {"HS256", "HS384", "HS512", "ES256", "ES384", "RS256", "RS384", "RS512",
     "PS256", "PS384", "PS512", "EdDSA"}

hmac_key(bytes) == bytes \o Rep(0, 64 - Len(bytes))

\* crypto::sign
sign(alg, key_bytes, payload) ==
    [alg |-> alg, key |-> hmac_key(key_bytes), payload |-> payload]

\* jsonwebtoken::encode
jsonwebtoken_encode(alg, payload, key_bytes) ==
    [alg |-> alg, payload |-> payload, parts |-> 3,
     sig |-> sign(alg, key_bytes, payload)]

Ok(c) == [ok |-> TRUE, err |-> "", claims |-> c]
Err(e) == [ok |-> FALSE, err |-> e, claims |-> NoChallenge]

\* the seconds jsonwebtoken reads from the system clock
get_current_timestamp(t) == t \div SUBSEC

\* validation::validate on the payload, at clock t: "" or the error
validate(payload, validation, t) ==
    IF \E c \in validation.required_spec_claims :
            \/ c = "exp" /\ payload.exp = Absent
            \/ c = "aud" /\ payload.aud = {}
            \/ c = "sub" /\ payload.sub = ""
            \/ c = "iss" /\ payload.iss = ""
    THEN "MissingRequiredClaim"
    ELSE IF /\ validation.validate_exp
            /\ payload.exp # Absent
            /\ payload.exp < get_current_timestamp(t) - validation.leeway
    THEN "ExpiredSignature"
    ELSE IF /\ validation.validate_aud
            /\ payload.aud # {}
            /\ payload.aud \cap validation.aud = {}
    THEN "InvalidAudience"
    ELSE ""

\* the claims once the signature holds: their shape, then the validation rules
decode_claims(de, invalid) ==
    IF ~de.ok THEN Err("Json")
    ELSE IF invalid # "" THEN Err(invalid)
    ELSE Ok(de.value)

\* jsonwebtoken::decode::<PowChallenge> under an HMAC key: the token's
\* structure, its header's algorithm, its signature, then its claims
jsonwebtoken_decode(jwt, key_bytes, validation, t) ==
    IF jwt.parts # 3 THEN Err("InvalidToken")
    ELSE IF jwt.alg \notin Algorithm THEN Err("Json")    \* Header::from_encoded
    ELSE IF jwt.alg \notin validation.algorithms THEN Err("InvalidAlgorithm")
    ELSE IF jwt.sig # sign(jwt.alg, key_bytes, jwt.payload) THEN Err("InvalidSignature")
    ELSE decode_claims(Deserialize_PowChallenge(jwt.payload),
                       validate(jwt.payload, validation, t))

(***************************************************************************)
(* tokens/pow_challenge.rs                                                 *)
(***************************************************************************)
JWT_POW_ALGORITHM == "HS256"

POW_TIMEOUT_SECS == 300

encode_with_key(t, pow_challenge, key, timeout) ==
    IF ~key.ok THEN [ok |-> FALSE, err |-> "Base64", token |-> NoToken]
    ELSE [ok |-> TRUE, err |-> "",
          token |-> jsonwebtoken_encode(
              JWT_POW_ALGORITHM,
              Serialize_TimeClaims(
                  with_timeout(t, timeout, pow_challenge),
                  Serialize_PowChallenge(pow_challenge)),
              key.bytes)]

\* pow_challenge::encode at clock t: [ok, err, token]
pow_challenge_encode(t, pow_challenge, enc_key) ==
    encode_with_key(t, pow_challenge, from_base64_secret(enc_key),
                    from_secs(POW_TIMEOUT_SECS))

\* pow_challenge::encode_with_timeout at clock t: [ok, err, token]
encode_with_timeout(t, pow_challenge, enc_key_b64, timeout) ==
    encode_with_key(t, pow_challenge, from_base64_secret(enc_key_b64), timeout)

decode_with_key(t, jwt, key, validation) ==
    IF ~key.ok THEN Err("Base64")
    ELSE jsonwebtoken_decode(jwt, key.bytes, validation, t)

\* decode with the signature check switched off
\* (Validation::insecure_disable_signature_validation)
decode_without_signature_check(t, jwt, dec_key_b64) ==
    IF jwt.parts # 3 THEN Err("InvalidToken")
    ELSE decode_claims(Deserialize_PowChallenge(jwt.payload),
                       validate(jwt.payload,
                                TimeClaims_build_validation(Validation_new(JWT_POW_ALGORITHM)),
                                t))

\* decode backed by a store of the tokens already used
decode_single_use(t, jwt, dec_key_b64) ==
    IF \E p \in verified : p[1] = jwt THEN Err("InvalidToken")
    ELSE decode_with_key(t, jwt, from_base64_secret(dec_key_b64),
                         TimeClaims_build_validation(Validation_new(JWT_POW_ALGORITHM)))

\* decode that takes the algorithm from the token's header
decode_header_algorithm(t, jwt, dec_key_b64) ==
    decode_with_key(t, jwt, from_base64_secret(dec_key_b64),
                    TimeClaims_build_validation(Validation_new(jwt.alg)))

\* pow_challenge::decode at clock t: Ok(PowChallenge) or Err(kind)
pow_challenge_decode(t, jwt, dec_key_b64) ==
    decode_with_key(t, jwt, from_base64_secret(dec_key_b64),
                    TimeClaims_build_validation(Validation_new(JWT_POW_ALGORITHM)))

(***************************************************************************)
(* tokens/auth.rs and the service's RS256 key pair. A private key is named *)
(* by a byte string; the public key verifies what its private key signed.  *)
(***************************************************************************)
JWT_AUTH_ALGORITHM == "RS256"

ServiceKey == <<1>>
ForeignKey == <<2>>

\* an RS256 signature by the holder of private key `key`
rsa_sign(key, payload) == [alg |-> JWT_AUTH_ALGORITHM, key |-> key, payload |-> payload]

auth_decode_with(t, jwt, validation) ==
    IF jwt.parts # 3 THEN "InvalidToken"
    ELSE IF jwt.alg \notin Algorithm THEN "Json"         \* Header::from_encoded
    ELSE IF jwt.alg \notin validation.algorithms THEN "InvalidAlgorithm"
    ELSE IF jwt.sig # rsa_sign(ServiceKey, jwt.payload) THEN "InvalidSignature"
    ELSE IF jwt.payload.aud = {} \/ jwt.payload.sub = "" \/ jwt.payload.iss = ""
    THEN "Json"                      \* AuthClaims<()> has no default for a member
    ELSE validate(jwt.payload, validation, t)

\* auth::decode at clock t, under the service's public key: "" or the error
auth_decode(t, jwt) ==
    auth_decode_with(t, jwt,
        TimeClaims_build_validation(
            AuthClaims_build_validation(Validation_new(JWT_AUTH_ALGORITHM))))

(***************************************************************************)
(* tokens/response.rs: the outcome token                                   *)
(***************************************************************************)
JWT_RESPONSE_ALGORITHM == "HS256"

Serialize_ResponseClaims(c) == [NoJson EXCEPT !.score = c.score]

\* response::encode at clock t
response_encode(t, score, enc_key) ==
    jsonwebtoken_encode(
        JWT_RESPONSE_ALGORITHM,
        Serialize_TimeClaims(TimeClaims_new(t, [score |-> score]),
                             Serialize_ResponseClaims([score |-> score])),
        from_base64_secret(enc_key).bytes)

(***************************************************************************)
(* routes/errors.rs: ChallengeError and its rendering. An error is its     *)
(* variant and the error it wraps; a response is a status, a body and the  *)
(* token it carries (NoToken when it carries none).                        *)
(***************************************************************************)
ChallengeError(kind) == [kind |-> kind, source |-> ""]
NoError == [kind |-> "", source |-> ""]

\* #[from] placed on the wrong variant
from_jwt_as_failed(err) == [kind |-> "FailedProofOfWork", source |-> err]

\* From<jsonwebtoken::errors::Error> for ChallengeError (#[from])
ChallengeError_from_jwt(err) == [kind |-> "InvalidProofOfWork", source |-> err]

Response(status, body) == [token |-> NoToken, status |-> status, body |-> body]

\* a rendering that gives both proof-of-work errors the same message
into_response_same_message(err) ==
    CASE err.kind = "InvalidKey" -> Response(403, "Invalid key")
      [] err.kind = "InvalidOrigin" -> Response(422, "Invalid origin header")
      [] err.kind \in {"InvalidProofOfWork", "FailedProofOfWork"} ->
            Response(400, "Invalid proof of work challenge")
      [] err.kind = "NoMatchingChallenge" -> Response(404, "No matching challenge")
      [] err.kind = "DomainNotAllowed" ->
            Response(403, "Domain not allowed, add this domain to the list of allowed domains")
      [] OTHER -> Response(500, "")

\* a rendering that answers a domain that is not allowed like an invalid key
into_response_domain_as_key(err) ==
    CASE err.kind \in {"InvalidKey", "DomainNotAllowed"} -> Response(403, "Invalid key")
      [] err.kind = "InvalidOrigin" -> Response(422, "Invalid origin header")
      [] err.kind = "InvalidProofOfWork" -> Response(400, "Invalid proof of work challenge")
      [] err.kind = "FailedProofOfWork" -> Response(400, "Failed proof of work challenge")
      [] err.kind = "NoMatchingChallenge" -> Response(404, "No matching challenge")
      [] OTHER -> Response(500, "")

\* IntoResponse for ChallengeError; Unexpected ends in try_unwrap_db_error,
\* which finds no other variant to render (From<db::Error> gives Unexpected)
ChallengeError_into_response(err) ==
    CASE err.kind = "InvalidKey" -> Response(403, "Invalid key")
      [] err.kind = "InvalidOrigin" -> Response(422, "Invalid origin header")
      [] err.kind = "InvalidProofOfWork" -> Response(400, "Invalid proof of work challenge")
      [] err.kind = "FailedProofOfWork" -> Response(400, "Failed proof of work challenge")
      [] err.kind = "NoMatchingChallenge" -> Response(404, "No matching challenge")
      [] err.kind = "DomainNotAllowed" ->
            Response(403, "Domain not allowed, add this domain to the list of allowed domains")
      [] OTHER -> Response(500, "")

(***************************************************************************)
(* routes/custom_headers.rs, routes/extractors.rs: the site key            *)
(***************************************************************************)
\* decode that reads a missing header as an empty value
XSiteKey_decode_missing_as_empty(header) ==
    IF header = NoHeader THEN try_from(UrlSafe, <<>>)
    ELSE try_from(UrlSafe, header)

\* XSiteKey::decode on the header's values
XSiteKey_decode(header) ==
    IF header = NoHeader THEN [ok |-> FALSE, value |-> <<>>]
    ELSE try_from(UrlSafe, header)

\* IntoResponse for TypedHeaderRejection: a missing header and one that does
\* not decode are both a bad request
TypedHeaderRejection_into_response(header) ==
    IF header = NoHeader
    THEN Response(400, "Header of type x-site-key was missing")
    ELSE Response(400, "invalid HTTP header (x-site-key)")

\* FromRequestParts for SiteKey
SiteKey_from_request_parts(r) == XSiteKey_decode(r.site_key)

(***************************************************************************)
(* routes.rs: the routers. A router maps each path to the middleware that  *)
(* runs before its handler, outermost first.                               *)
(***************************************************************************)
Router_new(paths) == [p \in paths |-> <<>>]

\* Router::layer: the layer added last wraps the others and runs first
Router_layer(router, middleware) ==
    [p \in DOMAIN router |-> <<middleware>> \o router[p]]

\* Router::merge
Router_merge(a, b) ==
    [p \in DOMAIN a \cup DOMAIN b |-> IF p \in DOMAIN a THEN a[p] ELSE b[p]]

ProcessPaths == {"/process", "/process-pre-analysis", "/process-accessibility"}

\* the challenge router without its hostname layer
challenge_router_no_hostname_layer ==
    Router_layer(
        Router_merge(Router_new({"/", "/all", "/proof-of-work"}), Router_new(ProcessPaths)),
        "block_bot_agent")

\* routes::challenge
challenge_router ==
    Router_layer(
        Router_merge(Router_new({"/", "/all", "/proof-of-work"}),
                     Router_layer(Router_new(ProcessPaths), "validate_hostname")),
        "block_bot_agent")

AdminPaths == {"POST /challenge", "DELETE /challenge"}

\* the admin router with its two layers added in the other order
admin_router_layers_swapped ==
    Router_layer(Router_layer(Router_new(AdminPaths), "require_auth"),
                 "require_admin")

\* routes::admin
admin_router ==
    Router_layer(Router_layer(Router_new(AdminPaths), "require_admin"),
                 "require_auth")

(***************************************************************************)
(* Requests. A request is idle (NoRequest) or carries its route, headers   *)
(* and body.                                                               *)
(***************************************************************************)
NoOrigin == ""
Origins == {NoOrigin} \cup {api_key[t].hostname : t \in Tenants}
SiteKeyHeaders ==
    {NoHeader, MalformedSiteKey, UnknownSiteKey} \cup {api_key[t].site_key : t \in Tenants}

Request(route, site_key, origin, challenge, solution, success, bearer, url) ==
    [site_key |-> site_key, solution |-> solution, route |-> route,
     origin |-> origin, challenge |-> challenge, success |-> success,
     bearer |-> bearer, url |-> url]

NoRequest == Request("", NoHeader, NoOrigin, NoToken, 0, FALSE, NoToken, "")
NoResponse == Response(0, "")

\* db::fetch_api_key_by_site_key: the tenants a site key belongs to, at most one
TenantOf(site_key) == {t \in Tenants : api_key[t].site_key = site_key}

(***************************************************************************)
(* routes/middleware.rs: the layers. A layer passes the request on, or     *)
(* answers it with a ChallengeError (logged as it is rendered) or with a   *)
(* plain rejection.                                                        *)
(***************************************************************************)
Pass == [resp |-> NoResponse, err |-> NoError, pass |-> TRUE]
Reject(err) == [resp |-> ChallengeError_into_response(err), err |-> err, pass |-> FALSE]
RejectWith(response) == [resp |-> response, err |-> NoError, pass |-> FALSE]

\* block_bot_agent: the requests modelled come from no known bot
block_bot_agent(r) == Pass

validate_hostname_with(r, sk) ==
    IF ~sk.ok THEN RejectWith(TypedHeaderRejection_into_response(r.site_key))
    ELSE IF TenantOf(sk.value) = {} THEN Reject(ChallengeError("InvalidKey"))
    ELSE IF r.origin = NoOrigin THEN Reject(ChallengeError("InvalidOrigin"))
    ELSE IF \A t \in TenantOf(sk.value) : r.origin # api_key[t].hostname
    THEN Reject(ChallengeError("DomainNotAllowed"))
    ELSE Pass

\* validate_hostname: the site key names a tenant and the Origin is one of
\* that tenant's hostnames
validate_hostname(r) == validate_hostname_with(r, SiteKey_from_request_parts(r))

Admins == {"admin"}

\* require_auth: the bearer token decodes under the service's key
require_auth(r, t) ==
    IF auth_decode(t, r.bearer) = "" THEN Pass ELSE RejectWith(Response(401, ""))

\* require_admin: the token's subject holds the elevated role
require_admin(r) ==
    IF r.bearer.payload.sub \in Admins THEN Pass ELSE RejectWith(Response(403, ""))

Middleware(name, r, t) ==
    CASE name = "block_bot_agent" -> block_bot_agent(r)
      [] name = "validate_hostname" -> validate_hostname(r)
      [] name = "require_auth" -> require_auth(r, t)
      [] name = "require_admin" -> require_admin(r)

Passed(layers) == [trace |-> layers, resp |-> NoResponse, err |-> NoError, passed |-> TRUE]
Stopped(layers, i, m) ==
    [trace |-> SubSeq(layers, 1, i), resp |-> m.resp, err |-> m.err, passed |-> FALSE]

RECURSIVE RunLayers(_, _, _, _)
RunLayer(layers, i, r, t, m) ==
    IF m.pass THEN RunLayers(layers, i + 1, r, t) ELSE Stopped(layers, i, m)

\* the layers of a route, outermost first, until one rejects:
\* [passed, trace, err, resp]
RunLayers(layers, i, r, t) ==
    IF i > Len(layers) THEN Passed(layers)
    ELSE RunLayer(layers, i, r, t, Middleware(layers[i], r, t))

(***************************************************************************)
(* routes/challenge.rs: the handlers. Each gives the steps it took, the    *)
(* error it logged and its response.                                       *)
(***************************************************************************)
Handled(steps, response) == [resp |-> response, err |-> NoError, steps |-> steps]
Failed(steps, err) == [resp |-> ChallengeError_into_response(err), err |-> err, steps |-> steps]

WithToken(status, body, token) == [token |-> token, status |-> status, body |-> body]

fetch_api_key_with(r, me, sk) ==
    IF ~sk.ok
    THEN [secret |-> <<>>, found |-> FALSE,
          handled |-> Handled(<<>>, TypedHeaderRejection_into_response(r.site_key))]
    ELSE IF TenantOf(sk.value) = {}
    THEN [secret |-> <<>>, found |-> FALSE,
          handled |-> Failed(<<me>>, ChallengeError("InvalidKey"))]
    ELSE [secret |-> api_key[CHOOSE x \in TenantOf(sk.value) : TRUE].secret, found |-> TRUE,
          handled |-> Handled(<<me>>, NoResponse)]

\* what every challenge handler begins with: the SiteKey extractor, then the
\* tenant's secret from storage
fetch_api_key(r, me) == fetch_api_key_with(r, me, SiteKey_from_request_parts(r))

issue_with(me, enc) ==
    IF ~enc.ok THEN Failed(<<me, "encode">>, ChallengeError("Unexpected"))
    ELSE Handled(<<me, "encode">>, WithToken(200, "PowResponse", enc.token))

get_proof_of_work_challenge_with(t, puzzle, me, k) ==
    IF ~k.found THEN k.handled
    ELSE issue_with(me, pow_challenge_encode(t, puzzle, k.secret))

\* GET /proof-of-work, with the puzzle it generates
get_proof_of_work_challenge(r, t, puzzle) ==
    get_proof_of_work_challenge_with(t, puzzle, "get_proof_of_work_challenge",
        fetch_api_key(r, "get_proof_of_work_challenge"))

verify_with(solution, dec) ==
    IF ~dec.ok THEN [err |-> ChallengeError_from_jwt(dec.err), steps |-> <<"decode">>]
    ELSE IF ~is_valid_solution(dec.claims, solution)
    THEN [err |-> ChallengeError("FailedProofOfWork"),
          steps |-> <<"decode", "is_valid_solution">>]
    ELSE [err |-> NoError, steps |-> <<"decode", "is_valid_solution">>]

\* the proof-of-work part of a submission: the token is decoded, and only
\* then is the solution tested
verify_proof_of_work(r, t, secret) ==
    verify_with(r.solution, pow_challenge_decode(t, r.challenge, secret))

pre_analysis_verified(t, verdict, me, secret, pow) ==
    IF pow.err # NoError THEN Failed(<<me>> \o pow.steps, pow.err)
    ELSE IF verdict = "bot"
    THEN Handled(<<me>> \o pow.steps \o <<"analysis">>,
                 Response(200, "PreAnalysisResponse::Failure"))
    ELSE Handled(<<me>> \o pow.steps \o <<"analysis">>,
                 WithToken(200, "PreAnalysisResponse::Success",
                           response_encode(t, 1, secret)))

process_pre_analysis_with(r, t, verdict, me, k) ==
    IF ~k.found THEN k.handled
    ELSE pre_analysis_verified(t, verdict, me, k.secret,
                               verify_proof_of_work(r, t, k.secret))

\* POST /process-pre-analysis, with the analysis' verdict on the interactions
process_pre_analysis(r, t, verdict) ==
    process_pre_analysis_with(r, t, verdict, "process_pre_analysis",
        fetch_api_key(r, "process_pre_analysis"))

accessibility_verified(t, me, secret, pow) ==
    IF pow.err # NoError THEN Failed(<<me>> \o pow.steps, pow.err)
    ELSE Handled(<<me>> \o pow.steps,
                 WithToken(200, "PreAnalysisResponse::Success",
                           response_encode(t, 1, secret)))

process_accessibility_challenge_with(r, t, me, k) ==
    IF ~k.found THEN k.handled
    ELSE accessibility_verified(t, me, k.secret, verify_proof_of_work(r, t, k.secret))

\* POST /process-accessibility
process_accessibility_challenge(r, t) ==
    process_accessibility_challenge_with(r, t, "process_accessibility_challenge",
        fetch_api_key(r, "process_accessibility_challenge"))

process_challenge_with(r, t, verdict, me, k) ==
    IF ~k.found THEN k.handled
    ELSE Handled(<<me, "analysis">>,
                 WithToken(200, "ChallengeResponse",
                           response_encode(t, IF r.success /\ verdict = "human" THEN 1 ELSE 0,
                                           k.secret)))

\* POST /process, with the analysis' verdict: a failed challenge scores 0
process_challenge(r, t, verdict) ==
    process_challenge_with(r, t, verdict, "process_challenge",
        fetch_api_key(r, "process_challenge"))

(***************************************************************************)
(* routes/admin.rs: the handlers behind the admin layers                   *)
(***************************************************************************)
Urls == {"https://c1.test/", "https://c2.test/"}

\* POST /challenge: [table, handled]
add_challenge(table, url) ==
    IF url \in table
    THEN [handled |-> Handled(<<"add_challenge">>,
                              Response(409, "Challenge url resource already exists")),
          table |-> table]
    ELSE [handled |-> Handled(<<"add_challenge">>, Response(200, "")),
          table |-> table \cup {url}]

\* DELETE /challenge: [table, handled]
remove_challenge(table, url) ==
    IF url \notin table
    THEN [handled |-> Handled(<<"remove_challenge">>, Response(404, "Challenge not found")),
          table |-> table]
    ELSE [handled |-> Handled(<<"remove_challenge">>, Response(200, "")),
          table |-> table \ {url}]

(***************************************************************************)
(* routes/errors.rs: the error enumerations of the four bounded contexts,  *)
(* their conversion from storage errors and their rendering. A lower-layer *)
(* error is [is_db, variant, constraint, context]: a db::Error::Constraint *)
(* has a kind (variant) and an optional constraint name (<<>> is None,     *)
(* <<n>> is Some(n)); context is what anyhow's .context() attached. A      *)
(* domain error is [type, kind, what, source]: its enumeration, its        *)
(* variant, the text the variant carries and the error it wraps.           *)
(***************************************************************************)
NoLower == [is_db |-> FALSE, variant |-> "", constraint |-> <<>>, context |-> ""]

\* anyhow::Error::new(err).context(c)
anyhow_context(err, c) == [err EXCEPT !.context = c]

DomainError(type, kind, what, source) ==
    [kind |-> kind, source |-> source, type |-> type, what |-> what]

\* the conversion does not return: the panic unwinds the handler
Panic(type) == DomainError(type, "panic", "", NoLower)

\* no response is written: the panic unwinds the request's task
Panicked == Response(0, "panicked")

\* Self::Unexpected(anyhow::Error::new(err).context("database error"))
Unexpected(type, err) ==
    DomainError(type, "Unexpected", "", anyhow_context(err, "database error"))

\* impl From<db::Error> for ChallengeError
ChallengeError_from(db_err) == Unexpected("ChallengeError", db_err)

\* impl From<db::Error> for ConsoleError: the guard of the first arm
\* unwraps the constraint's name
ConsoleError_from(db_err) ==
    IF db_err.variant = "ForeignKey" /\ db_err.constraint = <<>>
    THEN Panic("ConsoleError")
    ELSE IF db_err.variant = "ForeignKey" /\ db_err.constraint[1] = "api_key_console_id_fkey"
    THEN DomainError("ConsoleError", "Forbidden", "", NoLower)
    ELSE IF /\ db_err.variant \in {"PrimaryKey", "UniqueKey"}
            /\ db_err.constraint \in {<<"api_key_secret_unique">>, <<"api_key_pkey">>}
    THEN DomainError("ConsoleError", "Duplicate", "", NoLower)
    ELSE Unexpected("ConsoleError", db_err)

\* From<db::Error> for AdminError without the arm of the value range
AdminError_from_no_range(db_err) ==
    IF db_err.variant = "PrimaryKey" /\ db_err.constraint = <<"challenge_pkey">>
    THEN DomainError("AdminError", "NotUnique", "Challenge url", NoLower)
    ELSE Unexpected("AdminError", db_err)

\* impl From<db::Error> for AdminError
AdminError_from(db_err) ==
    IF db_err.variant = "ValueRange"
    THEN DomainError("AdminError", "InvalidDimensions", "", NoLower)
    ELSE IF db_err.variant = "PrimaryKey" /\ db_err.constraint = <<"challenge_pkey">>
    THEN DomainError("AdminError", "NotUnique", "Challenge url", NoLower)
    ELSE Unexpected("AdminError", db_err)

\* impl From<db::Error> for VerificationError
VerificationError_from(db_err) == Unexpected("VerificationError", db_err)

\* E::from(db_err)
E_from(type, db_err) ==
    CASE type = "ChallengeError" -> ChallengeError_from(db_err)
      [] type = "ConsoleError" -> ConsoleError_from(db_err)
      [] type = "AdminError" -> AdminError_from(db_err)
      [] type = "VerificationError" -> VerificationError_from(db_err)

\* ConsoleError::into_response that answers a duplicate with 409
ConsoleError_into_response_conflict(err) ==
    CASE err.kind = "Duplicate" -> Response(409, "")
      [] err.kind = "NotFound" -> Response(404, "Not found: " \o err.what)
      [] err.kind = "Forbidden" -> Response(403, "")
      [] err.kind = "InvalidInput" -> Response(422, "Invalid input: " \o err.what)

\* ConsoleError::into_response, the arms of the variants it names
ConsoleError_into_response(err) ==
    CASE err.kind = "Duplicate" -> Response(500, "")
      [] err.kind = "NotFound" -> Response(404, "Not found: " \o err.what)
      [] err.kind = "Forbidden" -> Response(403, "")
      [] err.kind = "InvalidInput" -> Response(422, "Invalid input: " \o err.what)

\* AdminError::into_response, the arms of the variants it names
AdminError_into_response(err) ==
    CASE err.kind = "NotUnique" -> Response(409, err.what \o " resource already exists")
      [] err.kind = "InvalidDimensions" ->
            Response(422, "Dimensions out of range: width and height must be greater than 0")
      [] err.kind = "InvalidUrl" -> Response(400, "Could not parse URL")
      [] err.kind = "NotFound" ->
            Response(404, "Challenge not found: url('" \o err.what \o "')")
      [] err.kind = "Unauthorized" -> Response(401, err.what)

\* VerificationError::into_response, the arms of the variants it names:
\* Json(..).into_response() answers 200
VerificationError_into_response(err) ==
    CASE err.kind = "UserError" -> Response(200, "{" \o err.what \o "}")
      [] err.kind = "BadRequest" -> Response(200, "{failure: [BadRequest]}")

\* other.into_response(), for a variant other than Unexpected
other_into_response(err) ==
    CASE err.type = "ChallengeError" -> ChallengeError_into_response(err)
      [] err.type = "ConsoleError" -> ConsoleError_into_response(err)
      [] err.type = "AdminError" -> AdminError_into_response(err)
      [] err.type = "VerificationError" -> VerificationError_into_response(err)

\* the closure handed to try_unwrap_db_error, applied to E::from's result
and_then(err) ==
    IF err.kind = "panic" THEN Panicked
    ELSE IF err.kind = "Unexpected" THEN Response(500, "")   \* None
    ELSE other_into_response(err)

\* try_unwrap_db_error that answers with the text of the error
try_unwrap_db_error_to_string(type, e) ==
    IF e.is_db THEN and_then(E_from(type, e))
    ELSE Response(500, e.variant)

\* try_unwrap_db_error whose downcast stops at an attached context
try_unwrap_db_error_bare(type, e) ==
    IF e.is_db /\ e.context = "" THEN and_then(E_from(type, e))
    ELSE Response(500, "")

\* try_unwrap_db_error::<E>(e, and_then): downcast sees the db::Error
\* through the context
try_unwrap_db_error(type, e) ==
    IF e.is_db THEN and_then(E_from(type, e))
    ELSE Response(500, "")

\* IntoResponse::into_response of the four enumerations
into_response(err) ==
    IF err.kind = "Unexpected" THEN try_unwrap_db_error(err.type, err.source)
    ELSE other_into_response(err)

(***************************************************************************)
(* The environment: the clock, the clients and what they may send.         *)
(***************************************************************************)
\* the instants the clock is read at: two issue times within one second,
\* the last instant of the life of a token issued at the second of them,
\* and the second after it
ClockInstants ==
    {0, 1, from_secs(POW_TIMEOUT_SECS) + 1, from_secs(POW_TIMEOUT_SECS + 1)}

\* a token whose payload was altered after it was signed
Tamper(jwt) == [jwt EXCEPT !.payload.exp = @ + POW_TIMEOUT_SECS]

SubmittableTokens == issued \cup {Tamper(k) : k \in issued} \cup {GarbageToken}

AuthTokenOver(key, payload) ==
    [alg |-> JWT_AUTH_ALGORITHM, payload |-> payload, parts |-> 3,
     sig |-> rsa_sign(key, payload)]

\* an authentication token, signed by the holder of private key `key`
AuthToken(sub, key, exp) ==
    AuthTokenOver(key, [NoJson EXCEPT !.aud = {CanonicalAudience}, !.sub = sub,
                                      !.iss = "https://idp.test/", !.exp = exp, !.iat = 0])

\* another service's audience
OtherAudience == "https://other.test/"

\* the admin's token with another audience claim: signed by the service's
\* key and not expired, or signed by another key, or expired
AuthTokenFor(aud, key, exp) ==
    [AuthToken("admin", key, exp) EXCEPT
        !.payload.aud = aud,
        !.sig.payload.aud = aud]

Bearers ==
    {NoToken,
     AuthToken("user", ServiceKey, 2 * POW_TIMEOUT_SECS),
     AuthToken("admin", ServiceKey, 2 * POW_TIMEOUT_SECS),
     AuthToken("admin", ServiceKey, 0),
     AuthToken("admin", ForeignKey, 2 * POW_TIMEOUT_SECS),
     AuthTokenFor({OtherAudience}, ServiceKey, 2 * POW_TIMEOUT_SECS),
     AuthTokenFor({OtherAudience, CanonicalAudience}, ServiceKey, 2 * POW_TIMEOUT_SECS),
     AuthTokenFor({}, ServiceKey, 2 * POW_TIMEOUT_SECS),
     AuthTokenFor({OtherAudience}, ForeignKey, 2 * POW_TIMEOUT_SECS),
     AuthTokenFor({OtherAudience}, ServiceKey, 0)}

\* nothing made, parsed or rendered yet
NoMaterial == [size |-> 0 - 1, alphabet |-> <<>>, text |-> <<>>]
NoParsed == [alphabet |-> <<>>, how |-> "", input |-> <<>>,
             result |-> [ok |-> FALSE, value |-> <<>>]]
NoDebug == <<>>
\* no error was returned yet
NoRaised == [kind |-> "", source |-> NoLower, origin |-> NoLower, type |-> "", what |-> ""]
\* no decoder was called yet
NoDecoded == [ok |-> FALSE, err |-> "", jwt |-> NoToken, decoder |-> ""]
\* nothing was minted yet
NoMinted == [ok |-> FALSE, exp |-> 0, iat |-> 0, other |-> NoJson, how |-> ""]

Init ==
    /\ now = 0
    /\ issued = {}
    /\ challenges = {}
    /\ req = NoRequest
    /\ trace = <<>>
    /\ log = NoError
    /\ resp = NoResponse
    /\ verified = {}
    /\ material = NoMaterial
    /\ parsed = NoParsed
    /\ debug = NoDebug
    /\ minted = NoMinted
    /\ raised = NoRaised
    /\ rendered = NoResponse
    /\ decoded = NoDecoded

\* time passes between two requests
Tick ==
    /\ req = NoRequest
    /\ \E t \in ClockInstants : t > now /\ now' = t
    /\ UNCHANGED <<issued, challenges, req, trace, log, resp, verified, pure>>

\* the server ran this step for the request at hand
Did(step) == \E i \in 1..Len(trace) : trace[i] = step

\* the request at hand submits a proof of work
Submission == req.route \in {"/process-pre-analysis", "/process-accessibility"}

\* the request at hand had its proof of work verified
Verified == Submission /\ Did("is_valid_solution") /\ log = NoError

\* the response leaves; the server keeps nothing of the request
Answered ==
    /\ req # NoRequest
    /\ req' = NoRequest
    /\ trace' = <<>>
    /\ log' = NoError
    /\ resp' = NoResponse
    /\ UNCHANGED <<now, issued, challenges, pure>>

\* ... and the history of the verified pairs is not followed
Deliver == Answered /\ UNCHANGED verified

\* ... and the client notes the pair when it was verified
DeliverNoted ==
    /\ Answered
    /\ verified' = IF Verified
                   THEN verified \cup {<<req.challenge, req.solution>>}
                   ELSE verified

\* the handler runs when every layer passed
Outcome(mw, handled) ==
    IF mw.passed THEN handled ELSE [resp |-> mw.resp, err |-> mw.err, steps |-> <<>>]

Respond(r, mw, out) ==
    /\ req = NoRequest
    /\ req' = r
    /\ trace' = mw.trace \o out.steps
    /\ log' = out.err
    /\ resp' = out.resp
    /\ UNCHANGED pure

ServeThrough(r, mw, handled) == Respond(r, mw, Outcome(mw, handled))

\* a request on the challenge router: its layers, then its handler
Serve(r, handled) ==
    ServeThrough(r, RunLayers(challenge_router[r.route], 1, r, now), handled)

GetProofOfWorkOf(r, puzzle) ==
    /\ Serve(r, get_proof_of_work_challenge(r, now, puzzle))
    /\ resp'.status = 200 => Cardinality(issued) < MaxIssued
    /\ issued' = IF resp'.status = 200 THEN issued \cup {resp'.token} ELSE issued
    /\ UNCHANGED <<now, challenges, verified>>

GetProofOfWork ==
    \E site_key \in SiteKeyHeaders, origin \in Origins, puzzle \in PowChallenges :
        GetProofOfWorkOf(
            Request("/proof-of-work", site_key, origin, NoToken, 0, FALSE, NoToken, ""),
            puzzle)

ProcessPreAnalysisOf(r, verdict) ==
    /\ Serve(r, process_pre_analysis(r, now, verdict))
    /\ UNCHANGED <<now, issued, challenges, verified>>

ProcessPreAnalysis ==
    \E site_key \in SiteKeyHeaders, origin \in Origins, jwt \in SubmittableTokens,
       solution \in Solutions, verdict \in {"human", "bot"} :
        ProcessPreAnalysisOf(
            Request("/process-pre-analysis", site_key, origin, jwt, solution, FALSE,
                    NoToken, ""),
            verdict)

ProcessAccessibilityOf(r) ==
    /\ Serve(r, process_accessibility_challenge(r, now))
    /\ UNCHANGED <<now, issued, challenges, verified>>

ProcessAccessibility ==
    \E site_key \in SiteKeyHeaders, origin \in Origins, jwt \in SubmittableTokens,
       solution \in Solutions :
        ProcessAccessibilityOf(
            Request("/process-accessibility", site_key, origin, jwt, solution, FALSE,
                    NoToken, ""))

ProcessChallengeOf(r, verdict) ==
    /\ Serve(r, process_challenge(r, now, verdict))
    /\ UNCHANGED <<now, issued, challenges, verified>>

ProcessChallenge ==
    \E site_key \in SiteKeyHeaders, origin \in Origins, success \in BOOLEAN,
       verdict \in {"human", "bot"} :
        ProcessChallengeOf(
            Request("/process", site_key, origin, NoToken, 0, success, NoToken, ""),
            verdict)

\* a request on the admin router: its layers, then its handler on the table
ServeAdmin(r, mw, out) ==
    /\ ServeThrough(r, mw, out.handled)
    /\ challenges' = IF mw.passed THEN out.table ELSE challenges
    /\ UNCHANGED <<now, issued, verified>>

AddChallengeOf(r) ==
    ServeAdmin(r, RunLayers(admin_router[r.route], 1, r, now),
               add_challenge(challenges, r.url))

AddChallenge ==
    \E bearer \in Bearers, url \in Urls :
        AddChallengeOf(
            Request("POST /challenge", NoHeader, NoOrigin, NoToken, 0, FALSE, bearer, url))

RemoveChallengeOf(r) ==
    ServeAdmin(r, RunLayers(admin_router[r.route], 1, r, now),
               remove_challenge(challenges, r.url))

RemoveChallenge ==
    \E bearer \in Bearers, url \in Urls :
        RemoveChallengeOf(
            Request("DELETE /challenge", NoHeader, NoOrigin, NoToken, 0, FALSE, bearer, url))

\* the challenge protocol: the clock and the four challenge endpoints
Next ==
    \/ Tick
    \/ Deliver
    \/ GetProofOfWork
    \/ ProcessPreAnalysis
    \/ ProcessAccessibility
    \/ ProcessChallenge

Spec == Init /\ [][Next]_vars

\* the admin console: the clock and the two admin endpoints
NextAdmin ==
    \/ Tick
    \/ Deliver
    \/ AddChallenge
    \/ RemoveChallenge

SpecAdmin == Init /\ [][NextAdmin]_vars

\* a page of tenant t submits a proof of work from the tenant's hostname
SubmitPreAnalysis ==
    \E t \in Tenants, jwt \in SubmittableTokens, solution \in Solutions,
       verdict \in {"human", "bot"} :
        ProcessPreAnalysisOf(
            Request("/process-pre-analysis", api_key[t].site_key, api_key[t].hostname,
                    jwt, solution, FALSE, NoToken, ""),
            verdict)

SubmitAccessibility ==
    \E t \in Tenants, jwt \in SubmittableTokens, solution \in Solutions :
        ProcessAccessibilityOf(
            Request("/process-accessibility", api_key[t].site_key, api_key[t].hostname,
                    jwt, solution, FALSE, NoToken, ""))

\* the proof-of-work protocol with its history: tokens are issued, the
\* tenants' pages submit them, and the verified pairs are noted
NextReplay ==
    \/ Tick
    \/ DeliverNoted
    \/ GetProofOfWork
    \/ SubmitPreAnalysis
    \/ SubmitAccessibility

SpecReplay == Init /\ [][NextReplay]_vars

(***************************************************************************)
(* The key material on its own: values are made by random, strings are     *)
(* parsed by try_from and values are rendered by Debug.                    *)
(***************************************************************************)
\* the requests and the storage stay as they are
protocol == <<now, issued, challenges, req, trace, log, resp, verified>>

\* Base64<A>::random::<N>(), for either alphabet and the sizes up to
\* KEY_SIZE + MaxOver
Random ==
    \E A \in {Standard, UrlSafe}, N \in 0..(KEY_SIZE + MaxOver), seed \in 0..MaxSeed :
        /\ material = NoMaterial
        /\ material' = [size |-> N, alphabet |-> A, text |-> random_with(A, N, seed)]
        /\ parsed' = NoParsed
        /\ debug' = NoDebug
        /\ UNCHANGED <<protocol, minted, raised, rendered, decoded>>

\* the strings a caller may hand to try_from: the value's own string
\* (as_str), that string damaged, and the two site keys of the tests
Hows == {"as_str", "first_bad", "truncated", "extended", "padded", "unknown", "malformed"}

StringFrom(text, how) ==
    CASE how = "as_str" -> text
      [] how = "first_bad" -> <<"!">> \o SubSeq(text, 2, Len(text))
      [] how = "truncated" -> SubSeq(text, 1, Len(text) - 1)
      [] how = "extended" -> text \o <<"A">>
      [] how = "padded" -> text \o <<"=">>
      [] how = "unknown" -> UnknownSiteKey
      [] how = "malformed" -> MalformedSiteKey

TryFromOf(A, how, input) ==
    /\ parsed' = [alphabet |-> A, how |-> how, input |-> input,
                  result |-> try_from(A, input)]
    /\ UNCHANGED <<material, debug, protocol, minted, raised, rendered, decoded>>

\* Base64<A>::try_from(string)
TryFrom ==
    /\ material # NoMaterial
    /\ parsed = NoParsed
    /\ \E A \in {Standard, UrlSafe}, how \in Hows :
           TryFromOf(A, how, StringFrom(material.text, how))

\* format!("{:?}", value)
Debug ==
    /\ material # NoMaterial
    /\ debug = NoDebug
    /\ debug' = Debug_fmt(material.alphabet, material.text)
    /\ UNCHANGED <<material, parsed, protocol, minted, raised, rendered, decoded>>

NextKeys ==
    \/ Random
    \/ TryFrom
    \/ Debug

SpecKeys == Init /\ [][NextKeys]_vars

(***************************************************************************)
(* The time claims on their own: values made by new and with_timeout, and  *)
(* tokens minted by encode and encode_with_timeout, as the clock advances. *)
(***************************************************************************)
\* the timeouts a caller may supply, in ticks: from none at all, through
\* parts of a second, to the two the service uses
Timeouts == (0..MaxTimeout) \cup {from_secs(TIMEOUT_SECS), from_secs(POW_TIMEOUT_SECS)}

\* a TimeClaims value as its maker returns it
MintedValue(how, tc) ==
    [ok |-> TRUE, exp |-> tc.exp, iat |-> tc.iat, other |-> Serialize_PowChallenge(tc.other),
     how |-> how]

\* a token as its encoder returns it, with the timestamps it carries
MintedToken(how, r) ==
    [ok |-> r.ok, exp |-> r.token.payload.exp, iat |-> r.token.payload.iat, other |-> [r.token.payload EXCEPT !.exp = 0, !.iat = 0],
     how |-> how]

Made(m) ==
    /\ minted' = m
    /\ UNCHANGED <<protocol, material, parsed, debug, raised, rendered, decoded>>

\* TimeClaims::new(other_claims)
New ==
    \E c \in PowChallenges : Made(MintedValue("new", TimeClaims_new(now, c)))

\* TimeClaims::with_timeout(timeout, other_claims)
WithTimeout ==
    \E c \in PowChallenges, timeout \in Timeouts :
        Made(MintedValue("with_timeout", with_timeout(now, timeout, c)))

\* pow_challenge::encode(pow_challenge, enc_key)
Encode ==
    \E c \in PowChallenges, k \in Tenants :
        Made(MintedToken("encode", pow_challenge_encode(now, c, api_key[k].secret)))

\* pow_challenge::encode_with_timeout(pow_challenge, enc_key_b64, timeout)
EncodeWithTimeout ==
    \E c \in PowChallenges, timeout \in Timeouts,
       enc_key_b64 \in {api_key[k].secret : k \in Tenants} \cup {MalformedSiteKey} :
        Made(MintedToken("encode_with_timeout",
                         encode_with_timeout(now, c, enc_key_b64, timeout)))

NextClaims ==
    \/ Tick
    \/ New
    \/ WithTimeout
    \/ Encode
    \/ EncodeWithTimeout

SpecClaims == Init /\ [][NextClaims]_vars

(***************************************************************************)
(* The decoders on their own: pow_challenge::decode and auth::decode are   *)
(* handed the tokens the service mints and the same tokens under another   *)
(* header.                                                                 *)
(***************************************************************************)
\* the alg members a client may write into a header
HeaderAlgorithms == {"HS256", "HS384", "RS256", "none"}

\* token jwt under header algorithm alg: with the signature it had, with
\* none, or signed again under alg with the key bytes the forger holds
Forged(jwt, alg, how, key_bytes) ==
    CASE how = "header" -> [jwt EXCEPT !.alg = alg]
      [] how = "unsigned" -> [jwt EXCEPT !.alg = alg, !.sig = NoSig]
      [] how = "resigned" ->
            [jwt EXCEPT !.alg = alg, !.sig = sign(alg, key_bytes, jwt.payload)]

Forgeries == {"header", "unsigned", "resigned"}

Called(decoder, jwt, ok, err) ==
    /\ decoded' = [ok |-> ok, err |-> err, jwt |-> jwt, decoder |-> decoder]
    /\ UNCHANGED <<protocol, material, parsed, debug, minted, raised, rendered>>

PowDecodeOf(jwt, result) == Called("pow_challenge", jwt, result.ok, result.err)

\* pow_challenge::decode(jwt, dec_key_b64) on a token minted now under
\* tenant k's secret and forged with that secret
PowDecode ==
    \E c \in PowChallenges, k \in Tenants, dk \in Tenants,
       alg \in HeaderAlgorithms, how \in Forgeries :
        PowDecodeOf(
            Forged(pow_challenge_encode(now, c, api_key[k].secret).token, alg, how,
                   from_base64_secret(api_key[k].secret).bytes),
            pow_challenge_decode(
                now,
                Forged(pow_challenge_encode(now, c, api_key[k].secret).token, alg, how,
                       from_base64_secret(api_key[k].secret).bytes),
                api_key[dk].secret))

AuthDecodeOf(jwt, err) == Called("auth", jwt, err = "", err)

\* auth::decode(jwt, dec_key) on a bearer token forged with the service's
\* public key as the secret
AuthDecode ==
    \E b \in Bearers \ {NoToken}, alg \in HeaderAlgorithms, how \in Forgeries :
        AuthDecodeOf(Forged(b, alg, how, ServiceKey),
                     auth_decode(now, Forged(b, alg, how, ServiceKey)))

NextDecoders ==
    \/ Tick
    \/ PowDecode
    \/ AuthDecode

SpecDecoders == Init /\ [][NextDecoders]_vars

(***************************************************************************)
(* The error taxonomy on its own: a handler returns a domain error, or a   *)
(* storage error that `?` converts into one, and the error is rendered.    *)
(***************************************************************************)
ErrorTypes == {"ChallengeError", "ConsoleError", "AdminError", "VerificationError"}

\* the variants of each enumeration, but for Unexpected
Variants(type) ==
    CASE type = "ChallengeError" ->
            {"InvalidKey", "InvalidOrigin", "InvalidProofOfWork", "FailedProofOfWork",
             "NoMatchingChallenge", "DomainNotAllowed"}
      [] type = "ConsoleError" -> {"NotFound", "Forbidden", "Duplicate", "InvalidInput"}
      [] type = "AdminError" ->
            {"NotUnique", "InvalidDimensions", "InvalidUrl", "NotFound", "Unauthorized"}
      [] type = "VerificationError" -> {"UserError", "BadRequest"}

\* the texts a variant may carry
Whats == {"", "a", "b"}

\* db::Error: a constraint violation of each kind, under each name the
\* conversions know, another name and none, and an error of another sort
DbErrors ==
    {[is_db |-> TRUE, variant |-> k, constraint |-> n, context |-> ""] :
        k \in {"ForeignKey", "PrimaryKey", "UniqueKey", "ValueRange"},
        n \in {<<>>, <<"api_key_console_id_fkey">>, <<"api_key_secret_unique">>,
               <<"api_key_pkey">>, <<"challenge_pkey">>, <<"other_key">>}}
    \cup {[is_db |-> TRUE, variant |-> "Other", constraint |-> <<>>, context |-> ""]}

\* what an anyhow::Error may wrap: a storage error or another failure,
\* with or without a context of the handler's
LowerErrors ==
    {anyhow_context(e, c) :
        e \in DbErrors \cup {[is_db |-> FALSE, variant |-> "io", constraint |-> <<>>,
                              context |-> ""]},
        c \in {"", "context"}}

Raised(err, db_err) ==
    [kind |-> err.kind, source |-> err.source, origin |-> db_err, type |-> err.type,
     what |-> err.what]

Returned(err, db_err) ==
    /\ raised = NoRaised
    /\ raised' = Raised(err, db_err)
    /\ UNCHANGED <<protocol, material, parsed, debug, minted, rendered, decoded>>

\* a handler returns Err(variant)
Raise ==
    \E type \in ErrorTypes :
        \/ \E kind \in Variants(type), what \in Whats :
               Returned(DomainError(type, kind, what, NoLower), NoLower)
        \/ \E e \in LowerErrors :
               Returned(DomainError(type, "Unexpected", "", e), NoLower)

\* a handler applies `?` to a storage error
Convert ==
    \E type \in ErrorTypes, db_err \in DbErrors :
        Returned(E_from(type, db_err), db_err)

\* the error a handler returned is rendered
Render ==
    /\ raised # NoRaised
    /\ raised.kind # "panic"
    /\ rendered = NoResponse
    /\ rendered' = into_response(raised)
    /\ UNCHANGED <<protocol, material, parsed, debug, minted, raised, decoded>>

NextErrors ==
    \/ Raise
    \/ Convert
    \/ Render

SpecErrors == Init /\ [][NextErrors]_vars

(***************************************************************************)
(* Properties. In a state that holds a request, trace is what the server   *)
(* ran for it, log the ChallengeError it logged and resp its response.     *)
(***************************************************************************)
\* no request is at hand; every clock reading and every set of issued tokens
\* that a state with a request has, a state with none has too
Idle == req = NoRequest

\* the token pow_challenge::encode gives at t0 for puzzle c under tenant t's secret
TokenOf(t0, c, t) == pow_challenge_encode(t0, c, api_key[t].secret).token

\* the token carries puzzle c
Carries(jwt, c) ==
    /\ jwt.payload.salt = c.salt
    /\ jwt.payload.difficulty = c.difficulty

\* tenant t was issued this token at some instant for some puzzle
IssuedTo(jwt, t) ==
    \E t0 \in ClockInstants, c \in PowChallenges :
        Carries(jwt, c) /\ jwt = TokenOf(t0, c, t)

\* the puzzle a token's payload carries
PuzzleIn(jwt) == [salt |-> jwt.payload.salt, difficulty |-> jwt.payload.difficulty]

\* the request at hand carries tenant t's site key and one of its hostnames
FromTenant(t) == req.site_key = api_key[t].site_key /\ req.origin = api_key[t].hostname

\* C1: a proof-of-work token issued under one tenant's secret, decoded under
\* another tenant's secret, gives a signature error at every instant, before
\* and after its expiry; submitted with the other tenant's site key it is
\* rejected as an invalid proof of work for that reason.
C1_TenantIsolation ==
    /\ \A t1 \in Tenants, t2 \in Tenants, jwt \in issued :
        (Idle /\ t1 # t2 /\ IssuedTo(jwt, t1)) =>
            pow_challenge_decode(now, jwt, api_key[t2].secret) = Err("InvalidSignature")
    /\ \A t1 \in Tenants, t2 \in Tenants :
        (/\ t1 # t2
         /\ Submission
         /\ FromTenant(t2)
         /\ req.challenge \in issued
         /\ IssuedTo(req.challenge, t1)) =>
            /\ log.source = "InvalidSignature"
            /\ resp.status = 400
            /\ resp.token = NoToken

\* C1 happens: after its expiry, tenant A's token is submitted with tenant
\* B's site key and refused for its signature
C1_Witness ==
    /\ Submission
    /\ FromTenant("B")
    /\ req.challenge \in issued
    /\ IssuedTo(req.challenge, "A")
    /\ get_current_timestamp(now) > req.challenge.payload.exp
    /\ log.source = "InvalidSignature"

\* C2: a submission whose token is the tenant's own, unexpired, and whose
\* solution fails the puzzle is rejected as FailedProofOfWork; one whose token
\* is malformed, tampered with or expired is rejected as InvalidProofOfWork;
\* the two rejections are rendered as different responses.
C2_Classification ==
    /\ \A t \in Tenants :
        (/\ Submission
         /\ FromTenant(t)
         /\ req.challenge \in issued
         /\ IssuedTo(req.challenge, t)
         /\ get_current_timestamp(now) <= req.challenge.payload.exp
         /\ ~is_valid_solution(PuzzleIn(req.challenge), req.solution)) =>
            /\ log.kind = "FailedProofOfWork"
            /\ resp = Response(400, "Failed proof of work challenge")
    /\ \A t \in Tenants :
        (/\ Submission
         /\ FromTenant(t)
         /\ \/ req.challenge = GarbageToken
            \/ \E k \in issued : req.challenge = Tamper(k)
            \/ /\ req.challenge \in issued
               /\ get_current_timestamp(now) > req.challenge.payload.exp) =>
            /\ log.kind = "InvalidProofOfWork"
            /\ resp = Response(400, "Invalid proof of work challenge")
    /\ log.kind \in {"FailedProofOfWork", "InvalidProofOfWork"} =>
            /\ resp = ChallengeError_into_response(log)
            /\ \A other \in {"FailedProofOfWork", "InvalidProofOfWork"} \ {log.kind} :
                   resp # ChallengeError_into_response(ChallengeError(other))

\* C2 happens: the tenant's own unexpired token comes back with a solution
\* that fails the puzzle
C2_Witness ==
    /\ Submission
    /\ FromTenant("A")
    /\ req.challenge \in issued
    /\ ~is_valid_solution(PuzzleIn(req.challenge), req.solution)
    /\ log.kind = "FailedProofOfWork"

\* C3: in a submission the token is decoded before the solution is tested,
\* and the solution is tested only when the decode succeeded; a submission
\* with an undecodable token and solution 0 is rejected as an invalid proof
\* of work, the solution never tested.
C3_DecodeBeforePredicate ==
    /\ \A i \in 1..Len(trace) :
        trace[i] = "is_valid_solution" =>
            /\ i > 1
            /\ trace[i - 1] = "decode"
            /\ \E t \in TenantOf(req.site_key) :
                   pow_challenge_decode(now, req.challenge, api_key[t].secret).ok
    /\ \A t \in Tenants :
        (Submission /\ FromTenant(t) /\ req.challenge = GarbageToken) =>
            /\ Did("decode")
            /\ ~Did("is_valid_solution")
            /\ log.kind = "InvalidProofOfWork"
            /\ log.source = "InvalidToken"

\* C3 happens: an undecodable token is submitted with solution 0
C3_Witness ==
    /\ req.route = "/process-accessibility"
    /\ FromTenant("A")
    /\ req.challenge = GarbageToken
    /\ req.solution = 0
    /\ log.kind = "InvalidProofOfWork"

\* C4, as the specification states it: a token decoded after its exp gives
\* an expiration error whether or not its signature is valid under the key.
C4_AsStated ==
    \A jwt \in SubmittableTokens, t \in Tenants :
        (Idle /\ jwt.parts = 3 /\ get_current_timestamp(now) > jwt.payload.exp) =>
            pow_challenge_decode(now, jwt, api_key[t].secret) = Err("ExpiredSignature")

\* C4: a proof-of-work token decoded at a second later than its exp never
\* decodes: the error is the expiration error when its signature is valid under
\* the key, and the signature error when it is not.
C4_Expiry ==
    /\ \A jwt \in SubmittableTokens, t \in Tenants :
        (Idle /\ jwt.parts = 3 /\ get_current_timestamp(now) > jwt.payload.exp) =>
            pow_challenge_decode(now, jwt, api_key[t].secret) =
                IF jwt \in issued /\ IssuedTo(jwt, t)
                THEN Err("ExpiredSignature")
                ELSE Err("InvalidSignature")
    /\ \A t \in Tenants :
        (/\ Submission
         /\ FromTenant(t)
         /\ req.challenge \in issued
         /\ IssuedTo(req.challenge, t)
         /\ get_current_timestamp(now) > req.challenge.payload.exp) =>
            /\ log = ChallengeError_from_jwt("ExpiredSignature")
            /\ resp.status = 400

\* C4 happens: a tenant's own token is submitted one second after its exp
C4_Witness ==
    /\ Submission
    /\ FromTenant("A")
    /\ req.challenge \in issued
    /\ IssuedTo(req.challenge, "A")
    /\ get_current_timestamp(now) = req.challenge.payload.exp + 1
    /\ log.source = "ExpiredSignature"

\* C5: a token that encode gave for puzzle c under a tenant's secret decodes
\* under that secret to c at every instant up to 300 seconds after it was
\* issued; submitted by its tenant in that time, it is decoded and its
\* solution tested.
C5_RoundTrip ==
    \A jwt \in issued, t \in Tenants, t0 \in ClockInstants, c \in PowChallenges :
        /\ (/\ Idle
            /\ now <= t0 + from_secs(POW_TIMEOUT_SECS)
            /\ Carries(jwt, c)
            /\ jwt = TokenOf(t0, c, t)) =>
                pow_challenge_decode(now, jwt, api_key[t].secret) = Ok(c)
        /\ (/\ Submission
            /\ FromTenant(t)
            /\ req.challenge = jwt
            /\ now <= t0 + from_secs(POW_TIMEOUT_SECS)
            /\ Carries(jwt, c)
            /\ jwt = TokenOf(t0, c, t)) =>
                (Did("is_valid_solution") /\ log.kind # "InvalidProofOfWork")

\* C5 happens: a token is decoded 300 seconds after it was issued
C5_Witness ==
    \E t \in Tenants, t0 \in ClockInstants, c \in PowChallenges :
        /\ Submission
        /\ FromTenant(t)
        /\ req.challenge \in issued
        /\ Carries(req.challenge, c)
        /\ req.challenge = TokenOf(t0, c, t)
        /\ now = t0 + from_secs(POW_TIMEOUT_SECS)
        /\ t0 > 0
        /\ Did("is_valid_solution")

\* the request at hand submits, within 300 seconds of its issue, a token
\* issued to the tenant whose site key and hostname it carries, with a
\* solution of its puzzle
ValidSubmission ==
    \E t \in Tenants, t0 \in ClockInstants, c \in PowChallenges :
        /\ Submission
        /\ FromTenant(t)
        /\ req.challenge \in issued
        /\ Carries(req.challenge, c)
        /\ req.challenge = TokenOf(t0, c, t)
        /\ now <= t0 + from_secs(POW_TIMEOUT_SECS)
        /\ is_valid_solution(c, req.solution)

\* the response carries an outcome token signed under the tenant's secret,
\* with an exp later than now and a score
CarriesOutcomeToken ==
    /\ resp.token.parts = 3
    /\ resp.token.payload.exp > get_current_timestamp(now)
    /\ resp.token.payload.score \in {0, 1}
    /\ \E t \in TenantOf(req.site_key) :
           resp.token.sig = sign(JWT_RESPONSE_ALGORITHM,
                                 from_base64_secret(api_key[t].secret).bytes,
                                 resp.token.payload)

\* C6, as the specification states it: every valid submission is answered
\* OK with the success outcome and an outcome token.
C6_AsStated ==
    ValidSubmission =>
        /\ resp.status = 200
        /\ resp.body = "PreAnalysisResponse::Success"
        /\ CarriesOutcomeToken

\* C6: a valid submission is answered OK; on /process-accessibility the
\* outcome is the success outcome, on /process-pre-analysis it is the success
\* outcome or, when the analysis does not pass, the failure outcome with no
\* token; the success outcome carries an outcome token with an exp later than
\* now and a score.
C6_EndToEnd ==
    ValidSubmission =>
        /\ resp.status = 200
        /\ log = NoError
        /\ req.route = "/process-accessibility" => resp.body = "PreAnalysisResponse::Success"
        /\ resp.body \in {"PreAnalysisResponse::Success", "PreAnalysisResponse::Failure"}
        /\ resp.body = "PreAnalysisResponse::Success" => CarriesOutcomeToken
        /\ resp.body = "PreAnalysisResponse::Failure" => resp.token = NoToken

\* C6 happens: a valid submission on /process-accessibility is answered with
\* an outcome token
C6_Witness ==
    /\ ValidSubmission
    /\ req.route = "/process-accessibility"
    /\ now > 0
    /\ CarriesOutcomeToken

\* C7: a request on /process, /process-pre-analysis or /process-accessibility
\* with a tenant's site key and an Origin that is none of the tenant's
\* hostnames is answered 403 before its handler runs, whatever its token and
\* solution, and that response differs from the ones for a missing, a
\* malformed and an unknown site key.
C7_OriginGate ==
    \A t \in Tenants :
        (/\ req.route \in ProcessPaths
         /\ req.site_key = api_key[t].site_key
         /\ req.origin # NoOrigin
         /\ req.origin # api_key[t].hostname) =>
            /\ resp.status = 403
            /\ resp.token = NoToken
            /\ log.kind = "DomainNotAllowed"
            /\ trace = <<"block_bot_agent", "validate_hostname">>
            /\ resp # ChallengeError_into_response(ChallengeError("InvalidKey"))
            /\ resp # TypedHeaderRejection_into_response(NoHeader)
            /\ resp # TypedHeaderRejection_into_response(MalformedSiteKey)

\* C7 happens: tenant A's unexpired token and a solution of its puzzle are
\* submitted with tenant A's site key from tenant B's hostname
C7_Witness ==
    /\ Submission
    /\ req.site_key = api_key["A"].site_key
    /\ req.origin = api_key["B"].hostname
    /\ req.challenge \in issued
    /\ IssuedTo(req.challenge, "A")
    /\ get_current_timestamp(now) <= req.challenge.payload.exp
    /\ is_valid_solution(PuzzleIn(req.challenge), req.solution)
    /\ resp.status = 403

\* C8, as the specification states it: no token is issued and no submission
\* verified unless the origin was first matched against the tenant's
\* hostnames.
C8_AsStated ==
    (Did("encode") \/ Did("decode") \/ Did("analysis")) => Did("validate_hostname")

\* C8: a submission is verified only after validate_hostname matched the
\* request's Origin against the hostnames of the site key's tenant; a
\* proof-of-work token is issued to any request whose site key is a tenant's,
\* with no check of its Origin.
C8_OriginBeforeVerification ==
    /\ (Did("decode") \/ Did("analysis")) =>
        /\ req.route \in ProcessPaths
        /\ Len(trace) >= 3
        /\ trace[2] = "validate_hostname"
        /\ \E t \in Tenants : FromTenant(t)
    /\ req.route = "/proof-of-work" =>
        /\ ~Did("validate_hostname")
        /\ (resp.status = 200) = (TenantOf(req.site_key) # {})
        /\ resp.status = 200 => (Did("encode") /\ resp.token \in issued)

\* C8 happens: a proof-of-work token is issued to a request with no Origin
C8_Witness ==
    /\ req.route = "/proof-of-work"
    /\ req.origin = NoOrigin
    /\ resp.status = 200
    /\ resp.token \in issued

\* C9: on the four endpoints that take a site key, a request with no
\* X-Site-Key header is answered 400 and one whose X-Site-Key is well formed
\* but no tenant's is answered 403; neither answer carries a token and
\* neither request has a token encoded.
C9_SiteKeyOutcomes ==
    /\ (req.route \in ProcessPaths \cup {"/proof-of-work"} /\ req.site_key = NoHeader) =>
        /\ resp.status = 400
        /\ resp.token = NoToken
        /\ ~Did("encode")
        /\ ~Did("analysis")
    /\ (req.route \in ProcessPaths \cup {"/proof-of-work"} /\ req.site_key = UnknownSiteKey) =>
        /\ resp.status = 403
        /\ log.kind = "InvalidKey"
        /\ resp.token = NoToken
        /\ ~Did("encode")
        /\ ~Did("analysis")

\* C9 happens: a proof-of-work token is asked for with no X-Site-Key header
C9_Witness ==
    /\ req.route = "/proof-of-work"
    /\ req.site_key = NoHeader
    /\ resp.status = 400

\* C10: on an admin route require_auth runs first; the handler runs only
\* after require_auth and then require_admin passed, for a bearer token that
\* decodes under the service's key and names an admin; a request that fails
\* either check never reaches the handler, whatever subject its token names.
C10_AdminLayering ==
    req.route \in AdminPaths =>
        /\ trace # <<>>
        /\ trace[1] = "require_auth"
        /\ (Did("add_challenge") \/ Did("remove_challenge")) =>
            /\ Len(trace) = 3
            /\ trace[2] = "require_admin"
            /\ auth_decode(now, req.bearer) = ""
            /\ req.bearer.payload.sub \in Admins
        /\ (auth_decode(now, req.bearer) # "" \/ req.bearer.payload.sub \notin Admins) =>
            /\ ~Did("add_challenge")
            /\ ~Did("remove_challenge")
            /\ resp.status \in {401, 403}
        /\ auth_decode(now, req.bearer) # "" => resp.status = 401

\* a token that names an admin but is signed by another key is
\* turned away by require_auth
C10_ForgedTurnedAway ==
    /\ req.route = "POST /challenge"
    /\ req.bearer = AuthToken("admin", ForeignKey, 2 * POW_TIMEOUT_SECS)
    /\ trace = <<"require_auth">>
    /\ resp.status = 401

\* C10 happens: an admin's request passes both layers and adds a challenge
C10_Witness ==
    /\ req.route = "POST /challenge"
    /\ trace = <<"require_auth", "require_admin", "add_challenge">>
    /\ resp.status = 200
    /\ req.url \in challenges

\* the pair the request at hand submits
SubmittedPair == <<req.challenge, req.solution>>

\* C11, as the specification states it: a pair that an answered submission
\* had verified is not verified again.
C11_AsStated == Verified => SubmittedPair \notin verified

\* C11: the expiry is what bounds a replay. A pair that was verified, sent
\* again by the tenant the token was issued to, is verified again at every
\* second up to the token's exp, and refused as expired at every later one.
C11_ReplayWindow ==
    \A t \in Tenants :
        (/\ Submission
         /\ FromTenant(t)
         /\ SubmittedPair \in verified
         /\ IssuedTo(req.challenge, t)) =>
            IF get_current_timestamp(now) <= req.challenge.payload.exp
            THEN Verified
            ELSE /\ log = ChallengeError_from_jwt("ExpiredSignature")
                 /\ resp.status = 400

\* C11 happens: a verified pair is sent again in the last second of the
\* token's life and is verified again
C11_Witness ==
    /\ Verified
    /\ SubmittedPair \in verified
    /\ get_current_timestamp(now) = req.challenge.payload.exp

\* what the proof of work of a submission comes to, from the token, the
\* solution, the secret and the clock alone: the kind of the error, "" for none
PowOutcome(jwt, solution, secret, t) ==
    IF \/ jwt.parts # 3
       \/ jwt.alg # JWT_POW_ALGORITHM
       \/ jwt.sig # sign(JWT_POW_ALGORITHM, from_base64_secret(secret).bytes, jwt.payload)
       \/ jwt.payload.salt = Absent
       \/ jwt.payload.difficulty = Absent
       \/ jwt.payload.exp = Absent
       \/ jwt.payload.exp < t \div SUBSEC
    THEN "InvalidProofOfWork"
    ELSE IF (jwt.payload.salt + solution) % (2 ^ jwt.payload.difficulty) # 0
    THEN "FailedProofOfWork"
    ELSE ""

\* the outcome of a request is a function of the request, the tenant's
\* secret and the clock
C12_OutcomeFunction ==
    /\ \A t \in Tenants :
        (Submission /\ FromTenant(t)) =>
            log.kind = PowOutcome(req.challenge, req.solution, api_key[t].secret, now)
    /\ \A t \in Tenants :
        (req.route = "/proof-of-work" /\ req.site_key = api_key[t].site_key) =>
            /\ resp.status = 200
            /\ resp.token = TokenOf(now, PuzzleIn(resp.token), t)

ParsedAsStr == parsed.how = "as_str" /\ parsed.alphabet = material.alphabet

\* C13, as the specification states it: for every size N, the string of a
\* value that random::<N>() made parses back to that value.
C13_AsStated ==
    ParsedAsStr => parsed.result = [ok |-> TRUE, value |-> material.text]

\* C13: for every size N up to the key size (48) and either alphabet, the
\* string of a value that random::<N>() made parses back to that value.
C13_RoundTrip ==
    (ParsedAsStr /\ material.size <= KEY_SIZE) =>
        parsed.result = [ok |-> TRUE, value |-> material.text]

\* C13 happens: a key of 48 random bytes is parsed back
C13_Witness ==
    /\ ParsedAsStr
    /\ material.size = KEY_SIZE
    /\ Len(material.text) = 64
    /\ parsed.result.ok

\* the string has a character that is neither in alphabet A nor a '='
HasForeignChar(A, s) ==
    \E i \in 1..Len(s) : s[i] # "=" /\ \A j \in 1..Len(A) : A[j] # s[i]

\* C14, as the specification states it: a string with a character outside
\* the alphabet, or one that decodes to a number of bytes other than 48, is
\* refused.
C14_AsStated ==
    /\ (parsed # NoParsed /\ HasForeignChar(parsed.alphabet, parsed.input)) =>
            ~parsed.result.ok
    /\ (ParsedAsStr /\ material.size # KEY_SIZE) => ~parsed.result.ok

\* C14: try_from always returns; a string with a character that is neither
\* in the alphabet nor padding, and a string that decodes to more than 48
\* bytes, is refused with a decode error; a well-formed string that decodes
\* to 48 bytes or fewer is accepted.
C14_Validation ==
    /\ parsed.result.ok \in BOOLEAN
    /\ (parsed # NoParsed /\ HasForeignChar(parsed.alphabet, parsed.input)) =>
            ~parsed.result.ok
    /\ (ParsedAsStr /\ material.size > KEY_SIZE) => ~parsed.result.ok
    /\ (ParsedAsStr /\ material.size < KEY_SIZE) => parsed.result.ok
    /\ (parsed.how = "unknown" /\ parsed.alphabet = UrlSafe) => parsed.result.ok
    /\ parsed.how \in {"first_bad", "malformed"} => ~parsed.result.ok

\* C14 happens: the string of 49 random bytes is refused
C14_Witness ==
    /\ ParsedAsStr
    /\ material.size = KEY_SIZE + 1
    /\ ~parsed.result.ok

\* the string `needle` occurs in the string `hay`
Occurs(needle, hay) ==
    \E i \in 0..(Len(hay) - Len(needle)) : SubSeq(hay, i + 1, i + Len(needle)) = needle

\* C15: the Debug rendering of a value is the same for every value of its
\* alphabet (that of the empty value, Base64::default()), and the value's
\* string does not occur in it.
C15_AsStated ==
    debug # NoDebug =>
        /\ debug = Debug_fmt(material.alphabet, <<>>)
        /\ material.text # <<>> => ~Occurs(material.text, debug)

\* the bearer token of the request at hand is signed by the service's key
\* and has not expired
SignedAndFresh ==
    /\ req.bearer.parts = 3
    /\ req.bearer.sig = rsa_sign(ServiceKey, req.bearer.payload)
    /\ req.bearer.payload.exp >= get_current_timestamp(now)

\* C16: auth::decode refuses every token whose aud does not hold the
\* canonical audience https://gotcha.land/, with an audience error when the
\* token is signed by the service, unexpired and names another audience;
\* every token it accepts holds the canonical audience, alone or among
\* others.
C16_Audience ==
    req.route \in AdminPaths =>
        /\ CanonicalAudience \notin req.bearer.payload.aud =>
            /\ auth_decode(now, req.bearer) # ""
            /\ trace = <<"require_auth">>
        /\ (SignedAndFresh /\ req.bearer.payload.aud = {OtherAudience}) =>
            auth_decode(now, req.bearer) = "InvalidAudience"
        /\ auth_decode(now, req.bearer) = "" =>
            CanonicalAudience \in req.bearer.payload.aud
        /\ (SignedAndFresh /\ CanonicalAudience \in req.bearer.payload.aud) =>
            auth_decode(now, req.bearer) = ""

\* C16 happens: an unexpired token signed by the service for another
\* audience is turned away
C16_Witness ==
    /\ req.route \in AdminPaths
    /\ SignedAndFresh
    /\ req.bearer.payload.aud = {OtherAudience}
    /\ req.bearer.payload.sub \in Admins
    /\ trace = <<"require_auth">>
    /\ resp.status = 401

\* C17: every TimeClaims value made by new or with_timeout, and every token
\* minted by encode or encode_with_timeout, expires strictly after it was
\* issued.
C17_AsStated == minted.ok => minted.exp > minted.iat

\* a variant other than Unexpected was returned and rendered
NamedRendered ==
    /\ raised.kind \notin {"", "Unexpected", "panic"}
    /\ rendered # NoResponse

\* C18 as stated: every variant other than Unexpected renders to a 4xx
\* status, and only Unexpected renders to a 5xx status.
C18_AsStated ==
    /\ NamedRendered => rendered.status \in 400..499
    /\ rendered.status >= 500 => raised.kind = "Unexpected"

\* C18: every variant other than Unexpected renders to one status,
\* whatever text it carries: a 4xx status for the variants of the
\* challenge and admin contexts and for the console's NotFound, Forbidden
\* and InvalidInput, 500 for the console's Duplicate, and 200 (a JSON
\* failure) for the verification context's UserError and BadRequest.
C18_StatusClass ==
    NamedRendered =>
        /\ \A what \in Whats :
               into_response([raised EXCEPT !.what = what]).status = rendered.status
        /\ raised.type \in {"ChallengeError", "AdminError"} =>
               rendered.status \in 400..499
        /\ raised.type = "ConsoleError" =>
               IF raised.kind = "Duplicate" THEN rendered.status = 500
               ELSE rendered.status \in 400..499
        /\ raised.type = "VerificationError" => rendered.status = 200

\* C18 happens: a primary-key violation on api_key_pkey became the
\* console's Duplicate and was rendered
C18_Witness ==
    /\ raised.type = "ConsoleError"
    /\ raised.kind = "Duplicate"
    /\ raised.origin.variant = "PrimaryKey"
    /\ rendered.status = 500

\* the storage error is one that the enumeration's conversion names
Recognized(type, e) ==
    /\ e.is_db
    /\ CASE type = "ConsoleError" ->
              \/ e.variant = "ForeignKey" /\ e.constraint = <<"api_key_console_id_fkey">>
              \/ /\ e.variant \in {"PrimaryKey", "UniqueKey"}
                 /\ e.constraint \in {<<"api_key_secret_unique">>, <<"api_key_pkey">>}
         [] type = "AdminError" ->
              \/ e.variant = "ValueRange"
              \/ e.variant = "PrimaryKey" /\ e.constraint = <<"challenge_pkey">>
         [] OTHER -> FALSE

\* a foreign-key violation that carries no constraint name
Nameless(e) == e.is_db /\ e.variant = "ForeignKey" /\ e.constraint = <<>>

\* an Unexpected error was returned and rendered
UnexpectedRendered ==
    /\ raised.kind = "Unexpected"
    /\ rendered # NoResponse

\* C19 as stated: every Unexpected(e) renders to 500 with an empty body.
C19_AsStated == UnexpectedRendered => rendered = Response(500, "")

\* C19: Unexpected(e) renders to 500 with an empty body, unless e wraps a
\* storage error that the context's conversion names, which renders as
\* the variant it is converted to (admin: 422 for a value range, 409 for
\* challenge_pkey; console: 403 for api_key_console_id_fkey, 500 for
\* api_key_secret_unique and api_key_pkey), and unless, in the console
\* context, e wraps a foreign-key violation without a constraint name,
\* where rendering panics; no body carries any detail of e.
C19_Opaque ==
    UnexpectedRendered =>
        IF Recognized(raised.type, raised.source)
        THEN rendered \in
                IF raised.type = "AdminError"
                THEN {Response(422, "Dimensions out of range: width and height must be greater than 0"),
                      Response(409, "Challenge url resource already exists")}
                ELSE {Response(403, ""), Response(500, "")}
        ELSE IF raised.type = "ConsoleError" /\ Nameless(raised.source)
        THEN rendered = Panicked
        ELSE rendered = Response(500, "")

\* C19 happens: an Unexpected that wraps a constraint violation no
\* conversion names, with the context a conversion attached, was rendered
C19_Witness ==
    /\ UnexpectedRendered
    /\ raised.source.is_db
    /\ raised.source.variant = "UniqueKey"
    /\ raised.source.constraint = <<"other_key">>
    /\ raised.source.context = "database error"
    /\ rendered = Response(500, "")

\* C20: a constraint violation that the context's conversion does not
\* name is converted into Unexpected, without a panic, and renders to 500
\* with an empty body.
C20_AsStated ==
    (raised.origin.is_db /\ raised.origin.variant # "Other"
        /\ ~Recognized(raised.type, raised.origin)) =>
        /\ raised.kind = "Unexpected"
        /\ rendered \in {NoResponse, Response(500, "")}

\* a storage error was converted into the error that is in `raised`
Converted == raised.origin.is_db

\* the constraint violation carries a name
Named(e) == e.constraint # <<>>

\* C21 as stated: in every context a named uniqueness violation becomes
\* a duplicate-resource error, a named foreign-key violation forbidden
\* and a value-range violation invalid input, and a violation that one
\* context classifies is classified by every context.
C21_AsStated ==
    Converted =>
        /\ (raised.origin.variant = "UniqueKey" /\ Named(raised.origin)) =>
               raised.kind \in {"Duplicate", "NotUnique"}
        /\ (raised.origin.variant = "ForeignKey" /\ Named(raised.origin)) =>
               raised.kind = "Forbidden"
        /\ raised.origin.variant = "ValueRange" =>
               raised.kind \in {"InvalidInput", "InvalidDimensions"}
        /\ ~Nameless(raised.origin) =>
               \A type \in ErrorTypes :
                   (E_from(type, raised.origin).kind = "Unexpected")
                       = (raised.kind = "Unexpected")

\* C21: each context reclassifies only the violations its conversion
\* names: the console a foreign-key violation on api_key_console_id_fkey
\* (Forbidden) and a primary-key or uniqueness violation on
\* api_key_secret_unique or api_key_pkey (Duplicate); the admin context a
\* value-range violation (InvalidDimensions) and a primary-key violation
\* on challenge_pkey (NotUnique); the challenge and verification contexts
\* none. Every other violation becomes Unexpected, but for the console's
\* conversion of a foreign-key violation without a name, which panics.
C21_Reclassification ==
    Converted =>
        /\ raised.type \in {"ChallengeError", "VerificationError"} =>
               raised.kind = "Unexpected"
        /\ raised.kind = "panic" <=>
               (raised.type = "ConsoleError" /\ Nameless(raised.origin))
        /\ raised.kind \notin {"Unexpected", "panic"} <=>
               Recognized(raised.type, raised.origin)
        /\ raised.kind = "Forbidden" =>
               /\ raised.type = "ConsoleError"
               /\ raised.origin.variant = "ForeignKey"
        /\ raised.kind = "Duplicate" =>
               /\ raised.type = "ConsoleError"
               /\ raised.origin.variant \in {"PrimaryKey", "UniqueKey"}
        /\ raised.kind = "InvalidDimensions" =>
               /\ raised.type = "AdminError"
               /\ raised.origin.variant = "ValueRange"
        /\ raised.kind = "NotUnique" =>
               /\ raised.type = "AdminError"
               /\ raised.origin.variant = "PrimaryKey"
               /\ raised.what = "Challenge url"
        /\ raised.kind \in {"", "Unexpected", "panic", "Forbidden", "Duplicate",
                            "InvalidDimensions", "NotUnique"}

\* C21 happens: a value-range violation was converted in the admin
\* context and rendered as invalid dimensions
C21_Witness ==
    /\ Converted
    /\ raised.type = "AdminError"
    /\ raised.origin.variant = "ValueRange"
    /\ raised.kind = "InvalidDimensions"
    /\ rendered.status = 422

\* the outcome of converting storage error d with E::from and rendering
\* what the conversion returns, when it returns
RenderedDirectly(type, d) ==
    IF E_from(type, d).kind = "panic" THEN Panicked
    ELSE into_response(E_from(type, d))

\* C23: rendering E::Unexpected(e), e an anyhow error that wraps storage
\* error d under any context, has the outcome of converting d with
\* E::from and rendering the result (both panic where the conversion
\* panics); and an Unexpected that the conversion returned renders to 500
\* with an empty body: its second conversion gives Unexpected again and
\* rendering stops there.
C23_PathEquivalence ==
    /\ (UnexpectedRendered /\ raised.source.is_db) =>
           rendered = RenderedDirectly(raised.type,
                                       anyhow_context(raised.source, ""))
    /\ (UnexpectedRendered /\ Converted) =>
           /\ rendered = Response(500, "")
           /\ E_from(raised.type, raised.source).kind = "Unexpected"

\* C23 happens: an Unexpected that a handler made from a value-range
\* violation under a context of its own was rendered in the admin
\* context as the conversion's InvalidDimensions is
C23_Witness ==
    /\ UnexpectedRendered
    /\ ~Converted
    /\ raised.type = "AdminError"
    /\ raised.source.variant = "ValueRange"
    /\ raised.source.context = "context"
    /\ rendered.status = 422

\* C22: pow_challenge::decode accepts only tokens whose header declares
\* HS256 and auth::decode only tokens whose header declares RS256: a
\* token under any other header is refused whatever signature and payload
\* it carries, with an algorithm error when the header names an algorithm
\* the library knows; the tokens the service mints are accepted.
C22_Downgrade ==
    /\ decoded.decoder = "pow_challenge" =>
           /\ decoded.ok => decoded.jwt.alg = JWT_POW_ALGORITHM
           /\ decoded.jwt.alg \in Algorithm \ {JWT_POW_ALGORITHM} =>
                  decoded.err = "InvalidAlgorithm"
           /\ decoded.jwt.alg \notin Algorithm => decoded.err = "Json"
           /\ \A c \in PowChallenges, k \in Tenants :
                  decoded.jwt = pow_challenge_encode(now, c, api_key[k].secret).token =>
                      (decoded.ok \/ decoded.err = "InvalidSignature")
    /\ decoded.decoder = "auth" =>
           /\ decoded.ok => decoded.jwt.alg = JWT_AUTH_ALGORITHM
           /\ decoded.jwt.alg \in Algorithm \ {JWT_AUTH_ALGORITHM} =>
                  decoded.err = "InvalidAlgorithm"
           /\ decoded.jwt.alg \notin Algorithm => decoded.err = "Json"

\* C22 happens: a token that a tenant's secret signs under HS384, with
\* the payload of a token minted now, was refused by pow_challenge::decode
\* under that tenant's secret
C22_Witness ==
    /\ decoded.decoder = "pow_challenge"
    /\ decoded.jwt.alg = "HS384"
    /\ decoded.jwt.payload.exp > get_current_timestamp(now)
    /\ \E k \in Tenants :
           /\ decoded.jwt.sig = sign("HS384", from_base64_secret(api_key[k].secret).bytes,
                                     decoded.jwt.payload)
           /\ ~pow_challenge_decode(now, decoded.jwt, api_key[k].secret).ok
    /\ decoded.err = "InvalidAlgorithm"

====
